---- MODULE Spec2Model ----
(***************************************************************************)
(* Model of the catalog enrichment pipeline of perfect-po-api.             *)
(*                                                                         *)
(* One catalog document is followed through its life: create_catalog       *)
(* (upload), enrichment requests issued through the trigger_enrichment     *)
(* route or by calling LocalEnrichmentService.enrich_catalog directly, and *)
(* delete_catalog.  Every request is a coroutine; an action of the model   *)
(* is the code that runs between two suspension points (awaits that really *)
(* yield: document-store operations and the provider call).                *)
(*                                                                         *)
(* Two enrichment requests are followed.                                   *)
(* Spec     : the second request starts after the first has ended; each is *)
(*            a request to the route or a direct call of the service.      *)
(* ConcSpec : two requests to the route, which may overlap and interleave  *)
(*            at their suspension points.                                  *)
(* MapSpec  : the field mapper and the providers' search term, applied to  *)
(*            one raw row.                                                 *)
(* OfferSpec: one enrichment request and one generate_offers request.      *)
(***************************************************************************)
EXTENDS Integers, FiniteSets, Sequences, TLC

\* ---------------------------------------------------------------- bounds
MaxRows == 2
MaxBatch == 2
MaxOffers == 2

\* ------------------------------------------------------ program constants
MockRows == 3
DefaultBatchSize == 10

Procs == {1, 2}
Users == {"owner", "other"}
Owner == "owner"
Providers == {"amazon", "keepa"}
ProviderNames == Providers \cup {"bogus"}
Formats == {"csv", "xlsx"}

\* what the Keepa search / product requests can come back with
KeepaResponses == {"ok", "request_error", "http_error", "no_products"}

\* statuses for which trigger_enrichment refuses to start a run
RejectedStatuses == {"processing", "enriched", "completed", "partially_completed"}

VARIABLES cat, products, req, keepa_api_key, mapper, offer, offers

vars == <<cat, products, req, keepa_api_key, mapper, offer, offers>>

\* ------------------------------------------------------------ helpers
Min(a, b) == IF a < b THEN a ELSE b

\* the catalog document as the model Catalog reads it (total_items: int = 0, ...);
\* file_rows is the number of rows of the file stored under file_path
NoCatalog ==
  [state |-> "absent", status |-> "none", total_items |-> 0, enriched_items |-> 0,
   enrichment_started_at |-> FALSE, enrichment_completed_at |-> FALSE,
   file_rows |-> 0]

IdleReq ==
  [pc |-> "idle", user |-> "owner", provider |-> "amazon",
   batch_size |-> DefaultBatchSize, run |-> 0, catalog_status |-> "none",
   total_items |-> 0, i |-> 0, enriched_count |-> 0, failed_count |-> 0,
   items |-> << >>, final_status |-> "none", started |-> FALSE,
   enriched_data |-> << >>, updates |-> 0, fallback |-> FALSE]

\* whether CatalogService._parse_catalog_file parses the uploaded file:
\* .csv, .json and .xlsx are parsed, anything else raises
ParseCatalogFileOk(file_name) == file_name \in {"csv", "json", "xlsx"}

\* find_one({"_id": catalog_id, "user_id": user_id})
FindOne(user) == cat.state = "present" /\ user = Owner

\* update_one({"_id": catalog_id}, {"$set": fields}) : no user filter, and
\* a no-op when no document matches
UpdateOne(fields) ==
  IF cat.state = "present"
  THEN [f \in DOMAIN cat |-> IF f \in DOMAIN fields THEN fields[f] ELSE cat[f]]
  ELSE cat

\* the indexes of the batch that starts at row i
BatchRange(i, n, b) == i .. (Min(i + b, n) - 1)

\* every row from i on is started at once
Dispatch_WholeRun(items, i, n, b) ==
  [k \in DOMAIN items |-> IF k >= i THEN "calling" ELSE items[k]]

\* tasks of the batch starting at i are created and run up to their first await
Dispatch(items, i, n, b) ==
  [k \in DOMAIN items |-> IF k \in BatchRange(i, n, b) THEN "calling" ELSE items[k]]

\* _get_catalog_line_items with every failure sent to the caller as no rows
GetCatalogLineItems_NoFallback(fetchOk) == IF fetchOk THEN cat.file_rows ELSE 0

\* _get_catalog_line_items: the number of rows it returns; the rows of the
\* file, or the built-in sample rows when retrieval or parsing raised
GetCatalogLineItems(fetchOk) == IF fetchOk THEN cat.file_rows ELSE MockRows

\* range(0, total_items, batch_size) stepping by one row
NextStart_ByOne(i, b) == i + 1

\* the start of the batch after the one that starts at row i
NextStart(i, b) == i + b

\* the index given to a task, taken from its position in the batch alone
TaskIndex_BatchLocal(i, j) == j

\* index = i + j of the task for the j-th row of the batch starting at i
TaskIndex(i, j) == i + j

\* _call_keepa_api in which a failed request is an error of the call
CallKeepaApi_NoFallback(resp) ==
  IF ~keepa_api_key \/ resp # "ok" THEN "raise" ELSE "real_data"

\* KeepaAPIProvider._call_keepa_api: raises without an API key; any request
\* error, HTTP error status or empty result gives the mock data
CallKeepaApi(resp) ==
  IF ~keepa_api_key THEN "raise"
  ELSE IF resp = "ok" THEN "real_data" ELSE "mock_data"

\* the call path of enrich_item: _extract_search_term raises on a row that is
\* not a mapping, then the provider's API call
CallPath(provider, resp, rowOk) ==
  IF ~rowOk THEN "raise"
  ELSE IF provider = "keepa" THEN CallKeepaApi(resp) ELSE "amazon_data"

\* enrich_item in which a missing Keepa key falls back to the mock data
EnrichItem_MissingKeyFallsBack(provider, resp, rowOk) ==
  [enrichment_status |-> "completed",
   enriched_data |-> IF provider = "keepa"
                     THEN (IF keepa_api_key /\ resp = "ok" THEN "real_data" ELSE "mock_data")
                     ELSE "amazon_data",
   enrichment_errors |-> FALSE]

\* EnrichmentProvider.enrich_item: the dict it returns (enrichment_errors:
\* whether the list is present and non-empty)
EnrichItem(provider, resp, rowOk) ==
  IF CallPath(provider, resp, rowOk) = "raise"
  THEN [enrichment_status |-> "failed", enriched_data |-> "none",
        enrichment_errors |-> TRUE]
  ELSE [enrichment_status |-> "completed",
        enriched_data |-> CallPath(provider, resp, rowOk),
        enrichment_errors |-> FALSE]

\* an exception of one item that reaches enrich_catalog
ExceptResult_Propagates(r, k) == [r EXCEPT !.pc = "handler"]

\* except Exception of _enrich_single_item: the task returns a failed result
\* that carries no enriched_data
ExceptResult(r, k) ==
  [r EXCEPT !.items[k] = "failed", !.enriched_data[k] = "none"]

\* a wait that ends as soon as one task of the batch has resolved
Gathered_FirstCompleted(items, range) ==
  \E k \in range : items[k] \in {"completed", "failed"}

\* asyncio.gather(*tasks): every task of the batch has resolved
Gathered(items, range) == \A k \in range : items[k] \in {"completed", "failed"}

\* the counting loop without its last branch (a result that is not "completed")
CountFailed_NoElseBranch(items, range) == 0

\* the counting loop without the test of enrichment_status
CountCompleted_CountsAll(items, range) == Cardinality(range)

\* the counting loop over the gathered results of one batch
CountCompleted(items, range) == Cardinality({k \in range : items[k] = "completed"})
CountFailed(items, range) == Cardinality({k \in range : items[k] # "completed"})

\* the final status chosen without looking at the failures
FinalStatus_AlwaysCompleted(failed_count) == "completed"

FinalStatus(failed_count) == IF failed_count = 0 THEN "completed" ELSE "partially_completed"

\* what is left of a request once enrich_catalog has returned / raised / been refused
Returned(r) ==
  [IdleReq EXCEPT !.pc = "returned", !.run = r.run, !.started = r.started,
                  !.fallback = r.fallback,
                  !.total_items = r.total_items, !.enriched_count = r.enriched_count,
                  !.failed_count = r.failed_count,
                  !.final_status = FinalStatus(r.failed_count)]

Raised(r) == [IdleReq EXCEPT !.pc = "raised", !.run = r.run, !.started = r.started]

Rejected(r, status) ==
  [IdleReq EXCEPT !.pc = "rejected", !.run = r.run, !.catalog_status = status]

\* the field mapper before it is given a row
IdleMapper == [pc |-> "idle"]

\* the generate_offers route before a request
IdleOffer == [pc |-> "idle"]

\* ----------------------------------------------------------------- Init
Init ==
  /\ cat = NoCatalog
  /\ products = {}
  /\ req = [p \in Procs |-> IdleReq]
  /\ keepa_api_key \in BOOLEAN
  /\ mapper = IdleMapper
  /\ offer = IdleOffer
  /\ offers = 0

\* -------------------------------------------------------------- actions

\* POST /catalogs/upload -> CatalogService.create_catalog
CreateCatalog(rows, file_name) ==
  /\ cat.state = "absent"
  /\ cat' = [state |-> "present", status |-> "uploaded",
             total_items |-> IF ParseCatalogFileOk(file_name) THEN rows ELSE 0,
             enriched_items |-> 0,
             enrichment_started_at |-> FALSE, enrichment_completed_at |-> FALSE,
             file_rows |-> rows]
  /\ UNCHANGED <<products, req, keepa_api_key, mapper, offer, offers>>

\* CatalogService.delete_catalog: the document is removed, and its fields
\* with it
DeleteCatalog(user) ==
  /\ FindOne(user)
  /\ cat' = [NoCatalog EXCEPT !.state = "deleted"]
  /\ UNCHANGED <<products, req, keepa_api_key, mapper, offer, offers>>

\* POST /catalogs/{id}/enrich : ownership, status and provider checks, then
\* the call of enrich_catalog up to its find_one
TriggerEnrichment(p, user, provider) ==
  /\ req[p].pc = "idle"
  /\ cat.state # "absent"
  /\ LET r == [IdleReq EXCEPT !.user = user, !.provider = provider,
                              !.run = p]
     IN IF ~FindOne(user)
        THEN req' = [req EXCEPT ![p] = Rejected(r, "none")]
        ELSE IF cat.status \in RejectedStatuses
        THEN req' = [req EXCEPT ![p] = Rejected(r, cat.status)]
        ELSE IF provider \notin Providers
        THEN req' = [req EXCEPT ![p] = Rejected(r, cat.status)]
        ELSE req' = [req EXCEPT ![p] = [r EXCEPT !.pc = "find",
                                                 !.catalog_status = cat.status]]
  /\ UNCHANGED <<cat, products, keepa_api_key, mapper, offer, offers>>

\* a direct call of LocalEnrichmentService.enrich_catalog, up to its find_one
EnrichCatalog(p, user, provider, batch_size) ==
  /\ req[p].pc = "idle"
  /\ cat.state # "absent"
  /\ LET r == [IdleReq EXCEPT !.user = user, !.provider = provider,
                              !.batch_size = batch_size, !.run = p]
     IN IF provider \notin Providers
        THEN req' = [req EXCEPT ![p] = [r EXCEPT !.pc = "handler"]]
        ELSE req' = [req EXCEPT ![p] = [r EXCEPT !.pc = "find"]]
  /\ UNCHANGED <<cat, products, keepa_api_key, mapper, offer, offers>>

\* find_one returns; _get_catalog_line_items runs without yielding; the
\* update to "processing" is issued
FindCatalog(p, dbOk, fetchOk) ==
  /\ req[p].pc = "find"
  /\ IF ~(dbOk /\ FindOne(req[p].user))
     THEN req' = [req EXCEPT ![p].pc = "handler"]
     ELSE LET n == GetCatalogLineItems(fetchOk)
          IN IF n = 0
             THEN req' = [req EXCEPT ![p].pc = "handler",
                                     ![p].catalog_status = cat.status,
                                     ![p].fallback = ~fetchOk]
             ELSE req' = [req EXCEPT ![p].pc = "set_processing",
                                     ![p].catalog_status = cat.status,
                                     ![p].fallback = ~fetchOk,
                                     ![p].total_items = n,
                                     ![p].items = [k \in 0 .. (n - 1) |-> "none"],
                                     ![p].enriched_data = [k \in 0 .. (n - 1) |-> "none"]]
  /\ UNCHANGED <<cat, products, keepa_api_key, mapper, offer, offers>>

\* update_one(status "processing", enrichment_started_at) returns; the first
\* batch is dispatched
SetProcessing(p, dbOk) ==
  /\ req[p].pc = "set_processing"
  /\ IF ~dbOk
     THEN /\ req' = [req EXCEPT ![p].pc = "handler"]
          /\ cat' = cat
     ELSE /\ cat' = UpdateOne([status |-> "processing", enrichment_started_at |-> TRUE])
          /\ req' = [req EXCEPT ![p].pc = "batch",
                                ![p].started = TRUE,
                                ![p].items = Dispatch(req[p].items, 0, req[p].total_items,
                                                      req[p].batch_size)]
  /\ UNCHANGED <<products, keepa_api_key, mapper, offer, offers>>

\* enrich_item of the provider returns; the product document is built and
\* its insert_one is issued (building it raises on a row that is not a mapping)
ProviderReturn(p, k, resp, rowOk) ==
  /\ req[p].pc = "batch"
  /\ k \in DOMAIN req[p].items
  /\ req[p].items[k] = "calling"
  /\ LET enrichment_result == EnrichItem(req[p].provider, resp, rowOk)
     IN req' = [req EXCEPT ![p] =
                  IF rowOk
                  THEN [req[p] EXCEPT
                          !.items[k] = "insert_" \o enrichment_result.enrichment_status,
                          !.enriched_data[k] = enrichment_result.enriched_data]
                  ELSE ExceptResult(req[p], k)]
  /\ UNCHANGED <<cat, products, keepa_api_key, mapper, offer, offers>>

\* insert_one returns (or raises, and _enrich_single_item returns a failed result)
InsertReturn(p, k, dbOk) ==
  /\ req[p].pc = "batch"
  /\ k \in DOMAIN req[p].items
  /\ req[p].items[k] \in {"insert_completed", "insert_failed"}
  /\ LET outcome == IF req[p].items[k] = "insert_completed" THEN "completed" ELSE "failed"
     IN IF dbOk
        THEN /\ products' = products \cup
                   {[run |-> req[p].run,
                     line_item_id |-> TaskIndex(req[p].i, k - req[p].i),
                     original_data |-> k, enrichment_status |-> outcome]}
             /\ req' = [req EXCEPT ![p].items[k] = outcome]
        ELSE /\ products' = products
             /\ req' = [req EXCEPT ![p] = ExceptResult(req[p], k)]
  /\ UNCHANGED <<cat, keepa_api_key, mapper, offer, offers>>

\* gather returns; results are counted; the progress update_one returns and
\* the next batch is dispatched (or the loop ends)
UpdateProgress(p, dbOk) ==
  /\ req[p].pc = "batch"
  /\ LET r == req[p]
         range == BatchRange(r.i, r.total_items, r.batch_size)
         ec == r.enriched_count + CountCompleted(r.items, range)
         fc == r.failed_count + CountFailed(r.items, range)
         ni == NextStart(r.i, r.batch_size)
     IN /\ Gathered(r.items, range)
        /\ IF ~dbOk
           THEN /\ cat' = cat
                /\ req' = [req EXCEPT ![p].pc = "handler",
                                      ![p].enriched_count = ec, ![p].failed_count = fc]
           ELSE /\ cat' = UpdateOne([enriched_items |-> ec])
                /\ req' = [req EXCEPT ![p].pc = IF ni < r.total_items THEN "batch" ELSE "final",
                                      ![p].enriched_count = ec, ![p].failed_count = fc,
                                      ![p].i = ni, ![p].updates = r.updates + 1,
                                      ![p].items = IF ni < r.total_items
                                                   THEN Dispatch(r.items, ni, r.total_items,
                                                                 r.batch_size)
                                                   ELSE r.items]
  /\ UNCHANGED <<products, keepa_api_key, mapper, offer, offers>>

\* the final update_one returns and enrich_catalog returns its result
FinalUpdate(p, dbOk) ==
  /\ req[p].pc = "final"
  /\ IF ~dbOk
     THEN /\ cat' = cat
          /\ req' = [req EXCEPT ![p].pc = "handler"]
     ELSE /\ cat' = UpdateOne([status |-> FinalStatus(req[p].failed_count),
                               enriched_items |-> req[p].enriched_count,
                               enrichment_completed_at |-> TRUE])
          /\ req' = [req EXCEPT ![p] = Returned(req[p])]
  /\ UNCHANGED <<products, keepa_api_key, mapper, offer, offers>>

\* except Exception: update_one(status "error") returns (or raises), then raise
ErrorHandler(p, dbOk) ==
  /\ req[p].pc = "handler"
  /\ cat' = IF dbOk THEN UpdateOne([status |-> "error"]) ELSE cat
  /\ req' = [req EXCEPT ![p] = Raised(req[p])]
  /\ UNCHANGED <<products, keepa_api_key, mapper, offer, offers>>

\* requests are numbered in their order of arrival
InOrder(p) == \A q \in Procs : q < p => req[q].pc # "idle"

\* no request is between its start and its end
Quiet == \A q \in Procs : req[q].pc \in {"idle", "rejected", "returned", "raised"}

\* the second request starts after the first has ended; a request comes
\* through the route or is a direct call of the service
Next ==
  \/ \E rows \in 0 .. MaxRows, file_name \in Formats : CreateCatalog(rows, file_name)
  \/ \E user \in Users : DeleteCatalog(user)
  \/ \E p \in Procs, user \in Users, provider \in ProviderNames :
        InOrder(p) /\ Quiet /\ TriggerEnrichment(p, user, provider)
  \/ \E p \in Procs, user \in Users, provider \in ProviderNames, b \in 1 .. MaxBatch :
        InOrder(p) /\ Quiet /\ EnrichCatalog(p, user, provider, b)
  \/ \E p \in Procs, dbOk \in BOOLEAN, fetchOk \in BOOLEAN : FindCatalog(p, dbOk, fetchOk)
  \/ \E p \in Procs, dbOk \in BOOLEAN : SetProcessing(p, dbOk)
  \/ \E p \in Procs, k \in 0 .. (MockRows + MaxRows), resp \in KeepaResponses,
          rowOk \in BOOLEAN : ProviderReturn(p, k, resp, rowOk)
  \/ \E p \in Procs, k \in 0 .. (MockRows + MaxRows), dbOk \in BOOLEAN : InsertReturn(p, k, dbOk)
  \/ \E p \in Procs, dbOk \in BOOLEAN : UpdateProgress(p, dbOk)
  \/ \E p \in Procs, dbOk \in BOOLEAN : FinalUpdate(p, dbOk)
  \/ \E p \in Procs, dbOk \in BOOLEAN : ErrorHandler(p, dbOk)

Spec == Init /\ [][Next]_vars

\* two requests through the route that may overlap: each is served by its own
\* coroutine of the event loop, and they interleave at their suspension points;
\* the catalog file is retrieved and parsed (Spec explores the fallback)
ConcNext ==
  \/ \E rows \in 0 .. MaxRows, file_name \in Formats : CreateCatalog(rows, file_name)
  \/ \E user \in Users : DeleteCatalog(user)
  \/ \E p \in Procs, user \in Users, provider \in ProviderNames :
        InOrder(p) /\ TriggerEnrichment(p, user, provider)
  \/ \E p \in Procs, dbOk \in BOOLEAN : FindCatalog(p, dbOk, TRUE)
  \/ \E p \in Procs, dbOk \in BOOLEAN : SetProcessing(p, dbOk)
  \/ \E p \in Procs, k \in 0 .. (MockRows + MaxRows), resp \in KeepaResponses,
          rowOk \in BOOLEAN : ProviderReturn(p, k, resp, rowOk)
  \/ \E p \in Procs, k \in 0 .. (MockRows + MaxRows), dbOk \in BOOLEAN : InsertReturn(p, k, dbOk)
  \/ \E p \in Procs, dbOk \in BOOLEAN : UpdateProgress(p, dbOk)
  \/ \E p \in Procs, dbOk \in BOOLEAN : FinalUpdate(p, dbOk)
  \/ \E p \in Procs, dbOk \in BOOLEAN : ErrorHandler(p, dbOk)

ConcSpec == Init /\ [][ConcNext]_vars

\* ------------------------------------------------------ offer generation

OfferTypes == {"standard", "bundle"}

\* products.find({catalog_id, user_id, enrichment_status: "completed"}): the
\* number of documents found; every document is inserted with the user_id of
\* the run that wrote it, which find_one has matched with the catalog's owner
FindCompleted(user) ==
  IF user = Owner
  THEN Cardinality({d \in products : d.enrichment_status = "completed"})
  ELSE 0

\* the most offers _generate_standard_offers / _generate_bundle_offers can
\* build from n products (a product without a positive price is skipped)
MaxGenerated(offer_type, n, max_offers) ==
  IF offer_type = "bundle"
  THEN (IF n < 2 THEN 0 ELSE Min(max_offers, n \div 2))
  ELSE Min(n, max_offers)

\* except Exception as e: raise Exception(f"Failed to generate offers: {e}")
ServiceRaises(exc) == "Exception"

\* the except clauses of the generate_offers route
RouteStatus(exc) == IF exc = "ValueError" THEN 400 ELSE 500

\* the request after generate_offers_for_catalog has raised exc
OfferFailed(o, exc) ==
  [o EXCEPT !.pc = "done", !.error = ServiceRaises(exc),
            !.http = RouteStatus(ServiceRaises(exc)), !.pending = 0]

\* POST /offers/generate, up to the find of the enriched products
GenerateOffers(user, offer_type, max_offers) ==
  /\ offer.pc = "idle"
  /\ cat.state # "absent"
  /\ offer' = [pc |-> "find_products", user |-> user, offer_type |-> offer_type,
               max_offers |-> max_offers, found |-> -1, pending |-> 0,
               error |-> "none", http |-> 0, offers_before |-> offers]
  /\ UNCHANGED <<cat, products, req, keepa_api_key, mapper, offers>>

\* the find returns; without products ValueError is raised, else find_one of
\* the catalog is issued
OfferFindProducts(dbOk) ==
  /\ offer.pc = "find_products"
  /\ IF ~dbOk
     THEN offer' = OfferFailed(offer, "PyMongoError")
     ELSE LET n == FindCompleted(offer.user)
          IN IF n = 0
             THEN offer' = OfferFailed([offer EXCEPT !.found = 0], "ValueError")
             ELSE offer' = [offer EXCEPT !.pc = "find_catalog", !.found = n]
  /\ UNCHANGED <<cat, products, req, keepa_api_key, mapper, offers>>

\* find_one returns; the offers are built (k of them) and the first insert_one
\* is issued, or the empty list is returned
OfferFindCatalog(dbOk, k) ==
  /\ offer.pc = "find_catalog"
  /\ k <= MaxGenerated(offer.offer_type, offer.found, offer.max_offers)
  /\ IF ~dbOk
     THEN offer' = OfferFailed(offer, "PyMongoError")
     ELSE IF ~FindOne(offer.user)
     THEN offer' = OfferFailed(offer, "ValueError")
     ELSE IF k = 0
     THEN offer' = [offer EXCEPT !.pc = "done", !.http = 200]
     ELSE offer' = [offer EXCEPT !.pc = "insert", !.pending = k]
  /\ UNCHANGED <<cat, products, req, keepa_api_key, mapper, offers>>

\* insert_one of an offer returns; the next one is issued, or the saved
\* offers are returned
OfferInsert(dbOk) ==
  /\ offer.pc = "insert"
  /\ IF ~dbOk
     THEN /\ offer' = OfferFailed(offer, "PyMongoError")
          /\ offers' = offers
     ELSE /\ offers' = offers + 1
          /\ offer' = IF offer.pending = 1
                      THEN [offer EXCEPT !.pc = "done", !.pending = 0, !.http = 200]
                      ELSE [offer EXCEPT !.pending = offer.pending - 1]
  /\ UNCHANGED <<cat, products, req, keepa_api_key, mapper>>

\* one enrichment request through the route and one generate_offers request,
\* interleaved at their suspension points
OfferNext ==
  \/ \E rows \in 0 .. MaxRows, file_name \in Formats : CreateCatalog(rows, file_name)
  \/ \E user \in Users : DeleteCatalog(user)
  \/ \E user \in Users, provider \in ProviderNames : TriggerEnrichment(1, user, provider)
  \/ \E dbOk \in BOOLEAN : FindCatalog(1, dbOk, TRUE)
  \/ \E dbOk \in BOOLEAN : SetProcessing(1, dbOk)
  \/ \E k \in 0 .. (MockRows + MaxRows), resp \in KeepaResponses, rowOk \in BOOLEAN :
        ProviderReturn(1, k, resp, rowOk)
  \/ \E k \in 0 .. (MockRows + MaxRows), dbOk \in BOOLEAN : InsertReturn(1, k, dbOk)
  \/ \E dbOk \in BOOLEAN : UpdateProgress(1, dbOk)
  \/ \E dbOk \in BOOLEAN : FinalUpdate(1, dbOk)
  \/ \E dbOk \in BOOLEAN : ErrorHandler(1, dbOk)
  \/ \E user \in Users, offer_type \in OfferTypes, max_offers \in 1 .. MaxOffers :
        GenerateOffers(user, offer_type, max_offers)
  \/ \E dbOk \in BOOLEAN : OfferFindProducts(dbOk)
  \/ \E dbOk \in BOOLEAN, k \in 0 .. MaxOffers : OfferFindCatalog(dbOk, k)
  \/ \E dbOk \in BOOLEAN : OfferInsert(dbOk)

OfferSpec == Init /\ [][OfferNext]_vars

\* ------------------------------------------------------- the field mapper
\* A raw row is a function from the column names it has to scalar values.  Text
\* is a sequence of characters and an int is written by its decimal digits,
\* so that str(), slicing, replace(), strip() and float() are computed on
\* the characters.
MaxColumns == 4
MaxIndex == 1

\* desc[:100]
SearchTermDescLimit == 100
\* available_fields[:3]
MeaningfulFieldsLimit == 3
\* hash(str(item_data)) % 1000000
HashModulus == 1000000
\* float(value): an int of more than 309 decimal digits exceeds every float
FloatDigits == 309

None == [kind |-> "null", s |-> <<>>]
Text(s) == [kind |-> "str", s |-> s]
\* the int written by the digits followed by `zeros` zeros
PyInt(digits, zeros) == [kind |-> "int", s |-> digits, zeros |-> zeros]
\* the float num / 10^scale, with no trailing zero among the decimals
PyFloat(num, scale) == [kind |-> "float", num |-> num, scale |-> scale]

DecimalDigits == <<"0", "1", "2", "3", "4", "5", "6", "7", "8", "9">>
UpperCase == <<"A", "B", "C", "D", "E", "F", "G", "H", "I", "J", "K", "L", "M",
               "N", "O", "P", "Q", "R", "S", "T", "U", "V", "W", "X", "Y", "Z">>
LowerCase == <<"a", "b", "c", "d", "e", "f", "g", "h", "i", "j", "k", "l", "m",
               "n", "o", "p", "q", "r", "s", "t", "u", "v", "w", "x", "y", "z">>

\* c * n
Repeat(c, n) == [i \in 1..n |-> c]

\* the value of a decimal digit
DigitValue(c) == CHOOSE d \in 0..9 : DecimalDigits[d + 1] = c

\* str(n) of a small non-negative int
RECURSIVE IntStr(_)
IntStr(n) ==
  IF n < 10 THEN <<DecimalDigits[n + 1]>>
  ELSE IntStr(n \div 10) \o <<DecimalDigits[(n % 10) + 1]>>

\* bool(value): None, '' and 0 are false
Truthy(v) ==
  CASE v.kind = "str" -> v.s # <<>>
    [] v.kind = "int" -> \E i \in 1..Len(v.s) : v.s[i] # "0"
    [] OTHER -> FALSE

\* str(value) of a text or an int
PyStr(v) == IF v.kind = "int" THEN v.s \o Repeat("0", v.zeros) ELSE v.s

\* str.lower()
Lower(s) ==
  [i \in 1..Len(s) |->
     IF \E j \in 1..26 : UpperCase[j] = s[i]
     THEN LowerCase[CHOOSE j \in 1..26 : UpperCase[j] = s[i]]
     ELSE s[i]]

\* str.replace(c, '')
RECURSIVE Replace(_, _)
Replace(s, c) ==
  IF s = <<>> THEN <<>>
  ELSE (IF Head(s) = c THEN <<>> ELSE <<Head(s)>>) \o Replace(Tail(s), c)

\* str.strip()
RECURSIVE Strip(_)
Strip(s) ==
  IF s = <<>> THEN s
  ELSE IF Head(s) = " " THEN Strip(Tail(s))
  ELSE IF s[Len(s)] = " " THEN Strip(SubSeq(s, 1, Len(s) - 1))
  ELSE s

\* sep.join(parts)
RECURSIVE Join(_, _)
Join(parts, sep) ==
  IF parts = <<>> THEN <<>>
  ELSE IF Len(parts) = 1 THEN parts[1]
  ELSE parts[1] \o sep \o Join(Tail(parts), sep)

\* item_data.get(field)
Get(item_data, field) ==
  IF field \in DOMAIN item_data THEN item_data[field] ELSE None

\* the alias lists of _enrich_single_item
NameAliases == <<"Style Name", "name", "product_name", "item_name", "title", "product_title">>
CategoryAliases ==
  <<"Category", "Subcategory", "Division", "category", "product_category",
    "item_category", "type", "product_type">>
BrandAliases == <<"brand", "product_brand", "item_brand", "manufacturer", "make">>
SkuAliases == <<"SKU", "sku", "product_sku", "item_sku", "product_code", "item_code">>
UpcAliases == <<"UPC", "upc", "product_upc", "item_upc", "barcode", "ean">>
PriceAliases ==
  <<"Offer Price", "Wholesale", "RRP", "price", "product_price",
    "item_price", "cost", "unit_price">>
CurrencyAliases == <<"Currency", "currency", "product_currency", "item_currency">>
QuantityAliases ==
  <<"Quantity Available", "quantity", "product_quantity", "item_quantity",
    "qty", "stock">>
UnitAliases == <<"unit", "product_unit", "item_unit", "uom", "measurement_unit">>

\* the field lists of _extract_search_term
name_fields == <<"name", "product_name", "item_name", "title", "product_title">>
desc_fields == <<"description", "product_description", "item_description", "details">>
sku_fields == <<"sku", "product_sku", "item_sku", "product_code", "item_code">>
StructuralFields == {"id", "price", "quantity", "currency", "unit"}

\* _extract_field_value in which a value wins when it is not None
RECURSIVE ExtractFieldValue_NotNone(_, _, _)
ExtractFieldValue_NotNone(item_data, field_names, default) ==
  IF field_names = <<>> THEN default
  ELSE IF Get(item_data, Head(field_names)) # None
       THEN item_data[Head(field_names)]
       ELSE ExtractFieldValue_NotNone(item_data, Tail(field_names), default)

\* _extract_field_value: the value of the first field whose value is true
RECURSIVE ExtractFieldValue(_, _, _)
ExtractFieldValue(item_data, field_names, default) ==
  IF field_names = <<>> THEN default
  ELSE IF Truthy(Get(item_data, Head(field_names)))
       THEN item_data[Head(field_names)]
       ELSE ExtractFieldValue(item_data, Tail(field_names), default)

\* an exception raised by float()
Raise(exc) == [kind |-> exc]

\* the number written by a sequence of decimal digits
RECURSIVE DigitsValue(_)
DigitsValue(s) ==
  IF s = <<>> THEN 0
  ELSE 10 * DigitsValue(SubSeq(s, 1, Len(s) - 1)) + DigitValue(s[Len(s)])

\* num / 10^scale without trailing zero decimals
RECURSIVE Normal(_, _)
Normal(num, scale) ==
  IF scale > 0 /\ num % 10 = 0 THEN Normal(num \div 10, scale - 1)
  ELSE PyFloat(num, scale)

\* float(s) of a text: digits with at most one decimal point (the unsigned
\* decimal notation; the rows hold no sign, exponent, inf or nan in a numeric
\* column); any other text is a ValueError
FloatOfText(s) ==
  LET digit(c) == \E d \in 1..10 : DecimalDigits[d] = c
      points == {i \in 1..Len(s) : s[i] = "."}
  IN IF /\ \A i \in 1..Len(s) : digit(s[i]) \/ s[i] = "."
        /\ \E i \in 1..Len(s) : digit(s[i])
        /\ Cardinality(points) <= 1
     THEN Normal(DigitsValue(Replace(s, ".")),
                 IF points = {} THEN 0 ELSE Len(s) - (CHOOSE i \in points : TRUE))
     ELSE Raise("ValueError")

\* float(n) of an int: OverflowError when n is too large for a float
FloatOfInt(v) ==
  IF Len(v.s) + v.zeros > FloatDigits THEN Raise("OverflowError")
  ELSE PyFloat(DigitsValue(PyStr(v)), 0)

\* the body of the try block of _extract_numeric_field
ToFloat(value) ==
  IF value.kind = "str"
  THEN FloatOfText(Strip(Replace(Replace(value.s, "$"), ",")))
  ELSE FloatOfInt(value)

\* _extract_numeric_field: the float of the first field that has a value and
\* converts; ValueError and TypeError are caught, any other exception leaves
\* the function
RECURSIVE ExtractNumericField(_, _)
ExtractNumericField(item_data, field_names) ==
  IF field_names = <<>> THEN None
  ELSE LET value == Get(item_data, Head(field_names))
       IN IF value = None
          THEN ExtractNumericField(item_data, Tail(field_names))
          ELSE IF ToFloat(value).kind \in {"ValueError", "TypeError"}
               THEN ExtractNumericField(item_data, Tail(field_names))
               ELSE ToFloat(value)

\* one "Label: value" part of the description, or nothing
DescriptionPart(item_data, column, label) ==
  LET value == Get(item_data, column)
  IN IF Truthy(value) /\ Lower(PyStr(value)) # <<"n", "a", "n">>
     THEN <<label \o <<":", " ">> \o PyStr(value)>>
     ELSE <<>>

\* _create_description_from_excel
CreateDescriptionFromExcel(item_data) ==
  LET description_parts ==
        DescriptionPart(item_data, "Color Name", <<"C", "o", "l", "o", "r">>)
        \o DescriptionPart(item_data, "Size", <<"S", "i", "z", "e">>)
        \o DescriptionPart(item_data, "Alt Size", <<"A", "l", "t", " ", "S", "i", "z", "e">>)
        \o DescriptionPart(item_data, "Category", <<"C", "a", "t", "e", "g", "o", "r", "y">>)
        \o DescriptionPart(item_data, "Subcategory", <<"S", "u", "b", "c", "a", "t", "e", "g", "o", "r", "y">>)
        \o DescriptionPart(item_data, "Division", <<"D", "i", "v", "i", "s", "i", "o", "n">>)
  IN IF description_parts # <<>>
     THEN Text(Join(description_parts, <<" ", "|", " ">>))
     ELSE Text(<<"P", "r", "o", "d", "u", "c", "t", " ", "f", "r", "o", "m", " ", "c", "a", "t", "a", "l", "o", "g">>)

\* the columns of the file in the order of its header, the order in which
\* item_data.items() goes through a row
ColumnOrder ==
  <<"Style Name", "Color Name", "Category", "brand", "sku", "name",
    "description", "Offer Price", "price", "currency">>

\* an int beyond the range of a float
Huge == PyInt(<<"1">>, FloatDigits + 1)

\* the values a column takes in the rows that are mapped
ColumnValues ==
  [c \in {ColumnOrder[i] : i \in 1..Len(ColumnOrder)} |->
     CASE c = "Style Name" -> {Text(<<>>), Text(<<"T", "e", "e">>)}
       [] c = "Color Name" -> {Text(<<"N", "a", "N">>), Text(<<"R", "e", "d">>)}
       [] c = "Category" -> {Text(<<"T", "o", "p", "s">>)}
       [] c = "brand" -> {Text(<<"A", "c", "m", "e">>)}
       [] c = "sku" -> {PyInt(<<"0">>, 0), Text(<<"A", "1">>)}
       [] c = "name" -> {None, Text(<<"W", "i", "d", "g", "e", "t">>)}
       [] c = "description" ->
            {Text(Repeat("x", SearchTermDescLimit + 1)), Text(<<"S", "o", "f", "t">>)}
       [] c = "Offer Price" -> {Text(<<"a", "b", "c">>), Huge}
       [] c = "price" -> {Text(<<"$", "1", "2", ".", "5", "0">>), PyInt(<<"7">>, 0), Text(<<" ", "1", ",", "2", "5", "0">>)}
       [] c = "currency" -> {Text(<<"E", "U", "R">>)}]

\* the rows over the columns `cols` that have at most n columns
RECURSIVE RowsOver(_, _)
RowsOver(cols, n) ==
  IF cols = <<>> THEN {[c \in {} |-> None]}
  ELSE RowsOver(Tail(cols), n)
       \cup (IF n = 0 THEN {}
             ELSE {(Head(cols) :> v) @@ r :
                     v \in ColumnValues[Head(cols)],
                     r \in RowsOver(Tail(cols), n - 1)})

RawRows == RowsOver(ColumnOrder, MaxColumns)

\* the values hash(str(item_data)) % 1000000 is followed for
Hashes == {0, HashModulus - 1}

\* the loop "for field in fields: if item_data.get(field)": the field it
\* stops at, "" when it ends
RECURSIVE FirstField(_, _)
FirstField(item_data, fields) ==
  IF fields = <<>> THEN ""
  ELSE IF Truthy(Get(item_data, Head(fields))) THEN Head(fields)
       ELSE FirstField(item_data, Tail(fields))

\* available_fields: str(value) of every true value whose key is not one of
\* the structural fields, in the order of the row
RECURSIVE AvailableFields(_, _)
AvailableFields(item_data, keys) ==
  IF keys = <<>> THEN <<>>
  ELSE (IF /\ Truthy(Get(item_data, Head(keys)))
           /\ Head(keys) \notin StructuralFields
        THEN <<PyStr(item_data[Head(keys)])>> ELSE <<>>)
       \o AvailableFields(item_data, Tail(keys))

\* _extract_search_term in which the description is not cut
ExtractSearchTerm_WholeDescription(item_data, h) ==
  IF FirstField(item_data, name_fields) # ""
  THEN PyStr(item_data[FirstField(item_data, name_fields)])
  ELSE IF FirstField(item_data, desc_fields) # ""
  THEN PyStr(item_data[FirstField(item_data, desc_fields)])
  ELSE IF FirstField(item_data, sku_fields) # ""
  THEN PyStr(item_data[FirstField(item_data, sku_fields)])
  ELSE IF AvailableFields(item_data, ColumnOrder) # <<>>
  THEN Join(SubSeq(AvailableFields(item_data, ColumnOrder), 1,
                   Min(MeaningfulFieldsLimit,
                       Len(AvailableFields(item_data, ColumnOrder)))), <<" ">>)
  ELSE <<"P", "r", "o", "d", "u", "c", "t", " ">> \o IntStr(h)

\* _extract_search_term (the same code in AmazonAPIProvider and
\* KeepaAPIProvider); h is hash(str(item_data)) % 1000000
ExtractSearchTerm(item_data, h) ==
  LET name == FirstField(item_data, name_fields)
      description == FirstField(item_data, desc_fields)
      sku == FirstField(item_data, sku_fields)
      available_fields == AvailableFields(item_data, ColumnOrder)
  IN IF name # "" THEN PyStr(item_data[name])
     ELSE IF description # ""
     THEN LET desc == PyStr(item_data[description])
          IN IF Len(desc) > SearchTermDescLimit
             THEN SubSeq(desc, 1, SearchTermDescLimit) ELSE desc
     ELSE IF sku # "" THEN PyStr(item_data[sku])
     ELSE IF available_fields # <<>>
     THEN Join(SubSeq(available_fields, 1,
                      Min(MeaningfulFieldsLimit, Len(available_fields))), <<" ">>)
     ELSE <<"P", "r", "o", "d", "u", "c", "t", " ">> \o IntStr(h)

\* an image field of the enrichment: None, one URL, or a list of len URLs
NoImage == [kind |-> "null", len |-> 0]
Url == [kind |-> "str", len |-> 0]
UrlList(n) == [kind |-> "list", len |-> n]

\* detailed_product.get("imagesCSV") of a Keepa product
ImagesCsv == {"absent", "ids"}

\* the image fields of the dict under "enriched_data": _call_amazon_api,
\* _call_keepa_api (images = the ids of imagesCSV, main_image = images[0] if
\* there is one), _get_mock_keepa_data; no dict at all in a failed result
EnrichedData(data, csv) ==
  CASE data = "amazon_data" -> ("amazon_images" :> UrlList(1))
    [] data = "real_data" ->
         ("keepa_images" :> UrlList(IF csv = "ids" THEN 2 ELSE 0))
         @@ ("keepa_main_image" :> IF csv = "ids" THEN Url ELSE NoImage)
    [] data = "mock_data" ->
         ("keepa_images" :> UrlList(3)) @@ ("keepa_main_image" :> Url)
    [] OTHER -> [f \in {} |-> NoImage]

\* _extract_image_from_enrichment: enriched_data.get(field_name), as it is
ExtractImageFromEnrichment(enriched_data, field_name) ==
  IF field_name \in DOMAIN enriched_data THEN enriched_data[field_name]
  ELSE NoImage

\* _extract_images_from_enrichment: the value when it is a non-empty list
ExtractImagesFromEnrichment(enriched_data, field_name) ==
  LET images == IF field_name \in DOMAIN enriched_data
                THEN enriched_data[field_name] ELSE UrlList(0)
  IN IF images.kind = "list" /\ images.len > 0 THEN images ELSE NoImage

\* product_data of _enrich_single_item: the canonical fields and the images
\* (enrichment_source is "keepa_api" or "amazon_api")
ProductData(item_data, index, provider, enriched_data) ==
  [name |-> ExtractFieldValue(item_data, NameAliases,
                              Text(<<"I", "t", "e", "m", " ">> \o IntStr(index))),
   description |-> CreateDescriptionFromExcel(item_data),
   category |-> ExtractFieldValue(item_data, CategoryAliases, None),
   brand |-> ExtractFieldValue(item_data, BrandAliases, None),
   sku |-> ExtractFieldValue(item_data, SkuAliases, None),
   upc |-> ExtractFieldValue(item_data, UpcAliases, None),
   price |-> ExtractNumericField(item_data, PriceAliases),
   currency |-> ExtractFieldValue(item_data, CurrencyAliases, Text(<<"U", "S", "D">>)),
   quantity |-> ExtractNumericField(item_data, QuantityAliases),
   unit |-> ExtractFieldValue(item_data, UnitAliases, Text(<<"p", "i", "e", "c", "e">>)),
   main_image |->
     IF provider = "keepa"
     THEN ExtractImageFromEnrichment(enriched_data, "keepa_main_image")
     ELSE ExtractImageFromEnrichment(enriched_data, "amazon_images"),
   images |->
     IF provider = "keepa"
     THEN ExtractImagesFromEnrichment(enriched_data, "keepa_images")
     ELSE ExtractImagesFromEnrichment(enriched_data, "amazon_images")]

\* an exception left one of the numeric fields while product_data was built
BuildRaises(product_data) ==
  \/ product_data.price.kind \notin {"float", "null"}
  \/ product_data.quantity.kind \notin {"float", "null"}

NoProduct == [built |-> FALSE]

\* _enrich_single_item is given a row
NewMapper(item_data) ==
  [pc |-> "row", item_data |-> item_data, provider |-> "none",
   search_term |-> <<>>,
   enrichment_result |-> [enrichment_status |-> "pending",
                          enriched_data |-> "none", enrichment_errors |-> FALSE],
   images_csv |-> "absent", product_data |-> NoProduct]

MapInit ==
  /\ cat = NoCatalog
  /\ products = {}
  /\ req = [p \in Procs |-> IdleReq]
  /\ keepa_api_key \in BOOLEAN
  /\ mapper \in {NewMapper(r) : r \in RawRows}
  /\ offer = IdleOffer
  /\ offers = 0

\* enrichment_provider.enrich_item(item_data): the search term of the row and
\* the provider's result
MapEnrichItem(provider, resp, csv, h) ==
  /\ mapper.pc = "row"
  /\ mapper' = [mapper EXCEPT
       !.pc = "enriched",
       !.provider = provider,
       !.search_term = ExtractSearchTerm(mapper.item_data, h),
       !.enrichment_result = EnrichItem(provider, resp, TRUE),
       !.images_csv = IF EnrichItem(provider, resp, TRUE).enriched_data = "real_data"
                      THEN csv ELSE "absent"]
  /\ UNCHANGED <<cat, products, req, keepa_api_key, offer, offers>>

\* product_data is built from the row and the result; an exception goes to
\* the except clause, which returns a failed result
MapProductData(index) ==
  /\ mapper.pc = "enriched"
  /\ LET product_data ==
           ProductData(mapper.item_data, index, mapper.provider,
                       EnrichedData(mapper.enrichment_result.enriched_data,
                                    mapper.images_csv))
     IN IF BuildRaises(product_data)
        THEN mapper' = [mapper EXCEPT
               !.pc = "raised",
               !.enrichment_result = [enrichment_status |-> "failed",
                                      enriched_data |-> "none",
                                      enrichment_errors |-> TRUE]]
        ELSE mapper' = [mapper EXCEPT !.pc = "mapped",
                                      !.product_data = product_data]
  /\ UNCHANGED <<cat, products, req, keepa_api_key, offer, offers>>

MapNext ==
  \/ \E provider \in Providers, resp \in KeepaResponses, csv \in ImagesCsv,
        h \in Hashes : MapEnrichItem(provider, resp, csv, h)
  \/ \E index \in 0 .. MaxIndex : MapProductData(index)

MapSpec == MapInit /\ [][MapNext]_vars

\* ------------------------------------------------------------ claims

TerminalStatuses == {"completed", "partially_completed", "error"}

Ended == {"rejected", "returned", "raised"}

\* the requests that have moved the catalog to processing and are still running
InFlight == {p \in Procs : req[p].started /\ req[p].pc \notin Ended}

\* C1: the status of a catalog changes only from uploaded to processing or
\* from uploaded / processing to completed, partially_completed or error:
\* processing is entered only from uploaded, and a status of completed,
\* partially_completed or error is never changed by an enrichment request.
C1_StatusOrder ==
  [][(cat.state = "present" /\ cat'.state = "present" /\ cat'.status # cat.status)
       => \/ cat.status = "uploaded" /\ cat'.status = "processing"
          \/ cat.status \in {"uploaded", "processing"} /\ cat'.status \in TerminalStatuses]_vars

\* C2: a request that finds the catalog in status processing, enriched,
\* completed or partially_completed is refused, and its steps change neither
\* the catalog document nor the products collection.
C2_BusyRejected ==
  [][\A p \in Procs :
       (req'[p] # req[p] /\ req'[p].catalog_status \in RejectedStatuses)
         => (req'[p].pc = "rejected" /\ cat' = cat /\ products' = products)]_vars

\* C3: of two overlapping requests that both found the catalog in status
\* uploaded, at most one is past the status precondition and running its
\* batches.
C3_OneInFlight ==
  \A p, q \in Procs :
    (p # q /\ req[p].catalog_status = "uploaded" /\ req[q].catalog_status = "uploaded")
      => ~(p \in InFlight /\ q \in InFlight)

\* C4: while the status is processing, enrichment_started_at is set and
\* enrichment_completed_at is null.
C4_ProcessingTimestamps ==
  (cat.state = "present" /\ cat.status = "processing")
    => (cat.enrichment_started_at /\ ~cat.enrichment_completed_at)

\* C5: enriched_items never exceeds total_items.
C5_EnrichedAtMostTotal ==
  cat.state = "present" => cat.enriched_items <= cat.total_items

\* the product documents a run has inserted with a given enrichment_status
Persisted(run, status) ==
  {d \in products : d.run = run /\ d.enrichment_status = status}

\* C6: a run that returns normally reports enriched_items + failed_items equal
\* to total_items, the number of rows it fetched.
C6_CountsSumToTotal ==
  \A p \in Procs :
    req[p].pc = "returned"
      => req[p].enriched_count + req[p].failed_count = req[p].total_items

\* a run over three rows has returned with two enriched items and one failed
C6_Witness ==
  \E p \in Procs :
    /\ req[p].pc = "returned"
    /\ req[p].total_items = 3
    /\ req[p].enriched_count = 2
    /\ req[p].failed_count = 1

\* C7: the enriched_items and failed_items a run returns are the numbers of
\* product documents it has persisted with enrichment_status completed and
\* failed.
C7_CountsMatchRecords ==
  \A p \in Procs :
    req[p].pc = "returned"
      => /\ req[p].enriched_count = Cardinality(Persisted(req[p].run, "completed"))
         /\ req[p].failed_count = Cardinality(Persisted(req[p].run, "failed"))

\* C8: the step that ends the batch loop and returns stores status completed
\* if every item of the run completed and partially_completed otherwise, sets
\* enrichment_completed_at, and returns the status it stored.
C8_FinalStatus ==
  [][\A p \in Procs :
       (req[p].pc = "final" /\ req'[p].pc = "returned" /\ cat'.state = "present")
         => /\ cat'.status =
                 IF \A k \in DOMAIN req[p].items : req[p].items[k] = "completed"
                 THEN "completed" ELSE "partially_completed"
            /\ cat'.enrichment_completed_at
            /\ req'[p].final_status = cat'.status]_vars

\* a run in which every item failed has returned partially_completed, and the
\* catalog document holds that status
C8_Witness ==
  \E p \in Procs :
    /\ req[p].pc = "returned"
    /\ req[p].total_items = 2
    /\ req[p].failed_count = 2
    /\ req[p].final_status = "partially_completed"
    /\ cat.state = "present"
    /\ cat.status = "partially_completed"
    /\ cat.enrichment_completed_at

\* C9: when enrich_catalog ends by raising, the catalog status is error.
C9_RaiseLeavesError ==
  [][\A p \in Procs :
       (req[p].pc # "raised" /\ req'[p].pc = "raised" /\ cat'.state = "present")
         => cat'.status = "error"]_vars

\* C10: when a run that has moved the catalog to processing returns or raises,
\* the catalog status is completed, partially_completed or error.
C10_EndsTerminal ==
  [][\A p \in Procs :
       (req[p].started /\ req[p].pc \notin Ended /\ req'[p].pc \in Ended
          /\ cat'.state = "present")
         => cat'.status \in TerminalStatuses]_vars

\* C11: the steps of a call whose provider name is not a registered provider
\* leave the catalog document and the products collection as they were.
C11_UnknownProviderNoEffect ==
  [][\A p \in Procs :
       (req'[p] # req[p] /\ req[p].provider \notin Providers)
         => (cat' = cat /\ products' = products)]_vars

\* the result _enrich_single_item has returned for row k
Resolved == {"completed", "failed"}

\* C12: while an item of the current batch is unresolved every step of the run
\* leaves it in its batch loop and the catalog document as it was; the step in
\* which an item fails (its provider call returned failed, or building or
\* inserting its product document raised) leaves the catalog document and every other item of the run
\* as they were; when its batch is counted the item adds one to failed_count
\* and the run goes on to the next batch or to the final update.
C12_ItemFailureContained ==
  [][\A p \in Procs :
       /\ (req[p].pc = "batch" /\ req'[p] # req[p]
             /\ ~Gathered(req[p].items, BatchRange(req[p].i, req[p].total_items,
                                                   req[p].batch_size)))
            => (req'[p].pc = "batch" /\ cat' = cat)
       /\ \A k \in DOMAIN req[p].items \cap DOMAIN req'[p].items :
            (req[p].items[k] # "failed" /\ req'[p].items[k] = "failed")
              => /\ req'[p].pc = "batch"
                 /\ cat' = cat
                 /\ req'[p].failed_count = req[p].failed_count
                 /\ \A l \in DOMAIN req[p].items \ {k} :
                       req'[p].items[l] = req[p].items[l]
       /\ (req[p].pc = "batch" /\ req'[p].updates = req[p].updates + 1)
            => /\ req'[p].pc \in {"batch", "final"}
               /\ req'[p].failed_count = req[p].failed_count +
                    Cardinality({k \in BatchRange(req[p].i, req[p].total_items,
                                                  req[p].batch_size) :
                                   req[p].items[k] = "failed"})]_vars

\* an item of the first batch failed without a product document, and the
\* next batch has been dispatched and has completed an item
C12_Witness ==
  \E p \in Procs :
    /\ req[p].pc = "batch"
    /\ req[p].i > 0
    /\ req[p].provider = "amazon"
    /\ req[p].items[0] = "failed"
    /\ req[p].failed_count = 1
    /\ Persisted(req[p].run, "failed") = {}
    /\ \E k \in DOMAIN req[p].items : k >= req[p].i /\ req[p].items[k] = "completed"
    /\ cat.state = "present" /\ cat.status = "processing"

\* C13: the progress update that follows a batch stores in enriched_items the
\* number of completed items of the run over all the batches finished so far.
C13_RunningCount ==
  [][\A p \in Procs :
       (req[p].pc = "batch" /\ req'[p].updates = req[p].updates + 1
          /\ cat'.state = "present")
         => cat'.enriched_items =
              Cardinality({k \in DOMAIN req[p].items :
                             k < req'[p].i /\ req[p].items[k] = "completed"})]_vars

\* two batches of one item each have completed, and enriched_items is 2
C13_Witness ==
  \E p \in Procs :
    /\ req[p].pc = "batch"
    /\ req[p].batch_size = 1
    /\ req[p].updates = 2
    /\ req[p].items[0] = "completed" /\ req[p].items[1] = "completed"
    /\ cat.state = "present" /\ cat.status = "processing"
    /\ cat.enriched_items = 2

\* the number of the batch that row k belongs to
BatchOf(p, k) == k \div req[p].batch_size

\* C14: when an item has been dispatched, every item of the earlier batches has
\* resolved and the progress update of every earlier batch has completed.
C14_BatchesInOrder ==
  \A p \in Procs : \A k \in DOMAIN req[p].items :
    req[p].items[k] # "none"
      => /\ \A j \in DOMAIN req[p].items :
               BatchOf(p, j) < BatchOf(p, k) => req[p].items[j] \in Resolved
         /\ req[p].updates >= BatchOf(p, k)

\* the second batch is in flight after the first has resolved and its progress
\* update has completed
C14_Witness ==
  \E p \in Procs :
    /\ req[p].pc = "batch"
    /\ req[p].batch_size = 2
    /\ req[p].total_items = 3
    /\ req[p].updates = 1
    /\ req[p].items[0] \in Resolved /\ req[p].items[1] \in Resolved
    /\ req[p].items[2] = "calling"

\* the items of a run whose provider call is in flight
Calling(p) == {k \in DOMAIN req[p].items : req[p].items[k] = "calling"}

\* C15: at most batch_size provider calls of a run are in flight, and they
\* all belong to one batch.
C15_InFlightBounded ==
  \A p \in Procs :
    /\ Cardinality(Calling(p)) <= req[p].batch_size
    /\ \A k, j \in Calling(p) : BatchOf(p, k) = BatchOf(p, j)

\* a run over three rows with batch_size 2 has two provider calls in flight
C15_Witness ==
  \E p \in Procs :
    /\ req[p].batch_size = 2
    /\ req[p].total_items = 3
    /\ Calling(p) = {0, 1}
    /\ req[p].items[2] = "none"

\* ceil(n / b)
CeilDiv(n, b) == (n + b - 1) \div b

\* the rows a step dispatches
Dispatched(p) ==
  {k \in DOMAIN req[p].items \cap DOMAIN req'[p].items :
     req[p].items[k] # "calling" /\ req'[p].items[k] = "calling"}

\* C16: a run over n rows with batch size b dispatches b rows per batch, except
\* n - b * (ceil(n / b) - 1) rows in the last one, and leaves its batch loop
\* after exactly ceil(n / b) progress updates, one per batch.
C16_BatchCount ==
  [][\A p \in Procs :
       LET n == req'[p].total_items
           b == req'[p].batch_size
           batches == CeilDiv(n, b)
       IN /\ Dispatched(p) # {}
               => /\ req'[p].updates < batches
                  /\ Cardinality(Dispatched(p)) =
                       IF req'[p].updates < batches - 1 THEN b
                       ELSE n - b * (batches - 1)
          /\ (req[p].pc = "batch" /\ req'[p].updates = req[p].updates + 1)
               => /\ Dispatched(p) # {} \/ req'[p].pc = "final"
                  /\ (req'[p].pc = "final") = (req'[p].updates = batches)]_vars

\* a run over three rows with batch size 2 has left its loop after two
\* progress updates
C16_Witness ==
  \E p \in Procs :
    /\ req[p].pc = "final"
    /\ req[p].total_items = 3
    /\ req[p].batch_size = 2
    /\ req[p].updates = 2

\* C17: a row is dispatched once, when it has not been dispatched before, and
\* every row has resolved when the batch loop ends; a product document a run
\* has persisted for row k has line_item_id k, and no two documents of one run
\* share a line_item_id.
C17_StableIdentity ==
  [][/\ \A p \in Procs : \A k \in Dispatched(p) : req[p].items[k] = "none"
     /\ \A p \in Procs :
          req'[p].pc = "final" =>
            \A k \in 0 .. (req'[p].total_items - 1) : req'[p].items[k] \in Resolved
     /\ \A d \in products' : d.line_item_id = d.original_data
     /\ \A d1, d2 \in products' :
          (d1.run = d2.run /\ d1.line_item_id = d2.line_item_id) => d1 = d2]_vars

\* row 1 of the first batch has completed and its document is persisted while
\* the provider call of row 0 is still in flight
C17_Witness ==
  \E p \in Procs :
    /\ req[p].pc = "batch"
    /\ req[p].batch_size = 2
    /\ req[p].total_items = 3
    /\ req[p].items[0] = "calling" /\ req[p].items[1] = "completed"
    /\ \E d \in products : d.run = req[p].run /\ d.line_item_id = 1 /\ d.original_data = 1

\* C18: a run whose catalog file could not be retrieved or parsed goes on to
\* process the built-in sample rows instead of raising, and when it returns the
\* catalog status is completed or partially_completed.
C18_FallbackRuns ==
  [][\A p \in Procs :
       /\ (req[p].pc = "find" /\ req'[p].fallback)
            => (req'[p].pc = "set_processing" /\ req'[p].total_items = MockRows)
       /\ (req[p].pc = "final" /\ req[p].fallback /\ req'[p].pc = "returned"
             /\ cat'.state = "present")
            => (req'[p].fallback
                /\ cat'.status \in {"completed", "partially_completed"}
                /\ req'[p].final_status = cat'.status)]_vars

\* a run of a catalog uploaded with two rows has processed the three sample
\* rows and has returned completed
C18_Witness ==
  \E p \in Procs :
    /\ req[p].pc = "returned"
    /\ req[p].fallback
    /\ req[p].total_items = MockRows
    /\ req[p].enriched_count = MockRows
    /\ cat.state = "present" /\ cat.file_rows = 2 /\ cat.status = "completed"

\* the Keepa responses that are not a result: a transport error, an HTTP error
\* status, an empty result set
KeepaFailures == KeepaResponses \ {"ok"}

\* C19: with an API key, enrich_item of the Keepa adapter returns completed
\* with the mock data for a transport error, an HTTP error status or an empty
\* result set; the item goes on to the insert of its document as completed,
\* and when its batch is counted every item that carries the mock data is
\* counted as enriched.
C19_KeepaFallbackCompleted ==
  [][/\ keepa_api_key =>
          \A resp \in KeepaFailures :
            EnrichItem("keepa", resp, TRUE) =
              [enrichment_status |-> "completed", enriched_data |-> "mock_data",
               enrichment_errors |-> FALSE]
     /\ \A p \in Procs : \A k \in DOMAIN req[p].items \cap DOMAIN req'[p].items :
          (req[p].items[k] = "calling" /\ req'[p].enriched_data[k] = "mock_data")
            => req'[p].items[k] = "insert_completed"
     /\ \A p \in Procs :
          (req[p].pc = "batch" /\ req'[p].updates = req[p].updates + 1)
            => LET range == BatchRange(req[p].i, req[p].total_items, req[p].batch_size)
                   mock == {k \in range : req[p].enriched_data[k] = "mock_data"}
               IN /\ req'[p].enriched_count >= req[p].enriched_count + Cardinality(mock)
                  /\ req'[p].failed_count <=
                       req[p].failed_count + Cardinality(range \ mock)]_vars

\* a Keepa run over one row whose request failed has counted the row as enriched
C19_Witness ==
  \E p \in Procs :
    /\ req[p].pc = "final"
    /\ req[p].provider = "keepa"
    /\ req[p].total_items = 1
    /\ req[p].enriched_data[0] = "mock_data"
    /\ req[p].enriched_count = 1 /\ req[p].failed_count = 0
    /\ Persisted(req[p].run, "completed") # {}

C21_NoProductsIsClientError ==
  (offer.pc = "done" /\ offer.found = 0)
    => (offer.error = "ValueError" /\ offer.http = 400
        /\ offers = offer.offers_before)

\* C27: the steps of a call whose user_id is not the owner of the catalog
\* leave the catalog document as it was.
C27_OtherUserNoEffect ==
  [][\A p \in Procs :
       (req'[p] # req[p] /\ req[p].pc # "idle" /\ req[p].user # Owner)
         => cat' = cat]_vars

\* C28: a run returns a completed or partially_completed result only while
\* the catalog document exists: a run whose catalog was removed by
\* delete_catalog raises instead.
C28_DeletedCatalogRaises ==
  [][\A p \in Procs :
       (req[p].pc # "returned" /\ req'[p].pc = "returned")
         => cat.state = "present"]_vars

\* C29: while the status is processing, enriched_items is the number of
\* completed items the running request has counted in its finished batches.
C29_ProgressOfCurrentRun ==
  (cat.state = "present" /\ cat.status = "processing")
    => \A p \in Procs :
         (req[p].started /\ req[p].pc \in {"batch", "final"})
           => cat.enriched_items = req[p].enriched_count

\* C22: for every raw row, building the canonical fields raises no exception,
\* and the currency and the unit of the product are not null ('USD' and
\* 'piece' when no alias column has a non-empty value).
C22_MapperNeverRaises ==
  mapper.pc \in {"mapped", "raised"} =>
    /\ mapper.pc = "mapped"
    /\ mapper.product_data.currency # None
    /\ mapper.product_data.unit # None

\* the positions in the alias list whose column is in the row with a
\* non-empty value (non-empty as the code tests it: None, '' and 0 are empty)
Qualifying(item_data, aliases) ==
  {i \in 1..Len(aliases) :
     aliases[i] \in DOMAIN item_data /\ Truthy(item_data[aliases[i]])}

\* the value of the first qualifying alias, the default if there is none
FirstNonEmpty(item_data, aliases, default) ==
  LET Q == Qualifying(item_data, aliases)
  IN IF Q = {} THEN default
     ELSE item_data[aliases[CHOOSE i \in Q : \A j \in Q : i <= j]]

\* C23: each text field of a product is the value of the first alias, in
\* the order of the field's alias list, that the row has with a non-empty
\* value, and the field's default when no alias has one (null; 'USD' for
\* currency, 'piece' for unit, 'Item <index>' for name).
C23_FirstAliasWins ==
  mapper.pc = "mapped" =>
    LET row == mapper.item_data
        p == mapper.product_data
    IN /\ \E index \in 0 .. MaxIndex :
            p.name = FirstNonEmpty(row, NameAliases, Text(<<"I", "t", "e", "m", " ">> \o IntStr(index)))
       /\ p.category = FirstNonEmpty(row, CategoryAliases, None)
       /\ p.brand = FirstNonEmpty(row, BrandAliases, None)
       /\ p.sku = FirstNonEmpty(row, SkuAliases, None)
       /\ p.upc = FirstNonEmpty(row, UpcAliases, None)
       /\ p.currency = FirstNonEmpty(row, CurrencyAliases, Text(<<"U", "S", "D">>))
       /\ p.unit = FirstNonEmpty(row, UnitAliases, Text(<<"p", "i", "e", "c", "e">>))

\* a row whose first name alias is empty and whose second has a value, and
\* whose sku is 0, has been mapped: the second alias gives the name and the
\* defaults are applied
C23_Witness ==
  /\ mapper.pc = "mapped"
  /\ {"Style Name", "name", "sku"} \subseteq DOMAIN mapper.item_data
  /\ mapper.item_data["Style Name"] = Text(<<>>)
  /\ mapper.item_data["name"] = Text(<<"W", "i", "d", "g", "e", "t">>)
  /\ mapper.item_data["sku"] = PyInt(<<"0">>, 0)
  /\ mapper.product_data.name = Text(<<"W", "i", "d", "g", "e", "t">>)
  /\ mapper.product_data.sku = None
  /\ mapper.product_data.currency = Text(<<"U", "S", "D">>)
  /\ mapper.product_data.unit = Text(<<"p", "i", "e", "c", "e">>)

\* the number a value stands for once '$' and ',' are removed from a text,
\* None when it cannot be parsed
Parsed(v) == IF ToFloat(v).kind = "float" THEN ToFloat(v) ELSE None

\* the number of the first alias that has a value that can be parsed
FirstParsed(item_data, aliases) ==
  LET Q == {i \in 1..Len(aliases) :
              /\ aliases[i] \in DOMAIN item_data
              /\ item_data[aliases[i]] # None
              /\ Parsed(item_data[aliases[i]]) # None}
  IN IF Q = {} THEN None
     ELSE Parsed(item_data[aliases[CHOOSE i \in Q : \A j \in Q : i <= j]])

\* the row {"name": "Widget", "price": "$12.50"}
ExampleRow == ("name" :> Text(<<"W", "i", "d", "g", "e", "t">>)) @@ ("price" :> Text(<<"$", "1", "2", ".", "5", "0">>))

\* C24: price and quantity are parsed after '$' and ',' are removed from a
\* text value; a value that cannot be parsed counts as absent and the field
\* is null, never an error; the row {"name": "Widget", "price": "$12.50"}
\* maps to name 'Widget', price 12.50, currency 'USD', unit 'piece'.
C24_UnparseableIsAbsent ==
  mapper.pc \in {"mapped", "raised"} =>
    /\ mapper.pc = "mapped"
    /\ mapper.product_data.price = FirstParsed(mapper.item_data, PriceAliases)
    /\ mapper.product_data.quantity = FirstParsed(mapper.item_data, QuantityAliases)
    /\ mapper.item_data = ExampleRow =>
         /\ mapper.product_data.name = Text(<<"W", "i", "d", "g", "e", "t">>)
         /\ mapper.product_data.price = PyFloat(125, 1)
         /\ mapper.product_data.currency = Text(<<"U", "S", "D">>)
         /\ mapper.product_data.unit = Text(<<"p", "i", "e", "c", "e">>)

\* C25: the description of a product is the row's own description when the
\* row has a non-empty description column, and is put together from Color
\* Name, Size, Alt Size, Category, Subcategory and Division (or is 'Product
\* from catalog') only when it has none.
C25_ExplicitDescriptionWins ==
  mapper.pc = "mapped" =>
    mapper.product_data.description =
      IF Qualifying(mapper.item_data, desc_fields) # {}
      THEN FirstNonEmpty(mapper.item_data, desc_fields, None)
      ELSE CreateDescriptionFromExcel(mapper.item_data)

\* the columns of the row, in its order, that have a non-empty value and
\* are not structural fields
Meaningful(item_data) ==
  SelectSeq(ColumnOrder,
            LAMBDA c : /\ c \in DOMAIN item_data
                       /\ Truthy(item_data[c])
                       /\ c \notin StructuralFields)

\* "Product <number>" with a number below 1000000
IsPlaceholder(term) ==
  /\ Len(term) \in 9 .. 14
  /\ SubSeq(term, 1, 8) = <<"P", "r", "o", "d", "u", "c", "t", " ">>
  /\ \A i \in 9 .. Len(term) : \E d \in 1 .. 10 : DecimalDigits[d] = term[i]

\* C26: the search term of a row is never empty and follows the fallback
\* order: the first non-empty name alias; else the first non-empty
\* description alias, cut to 100 characters; else the first non-empty sku
\* alias; else the first three non-empty values of the fields that are not
\* structural, joined by spaces; else a 'Product <number>' placeholder.
C26_SearchTermOrder ==
  mapper.pc \in {"enriched", "mapped", "raised"} =>
    LET row == mapper.item_data
        term == mapper.search_term
        byName == Qualifying(row, name_fields) # {}
        byDesc == Qualifying(row, desc_fields) # {}
        bySku == Qualifying(row, sku_fields) # {}
        desc == PyStr(FirstNonEmpty(row, desc_fields, None))
        m == Meaningful(row)
    IN /\ Len(term) > 0
       /\ byName => term = PyStr(FirstNonEmpty(row, name_fields, None))
       /\ (~byName /\ byDesc) =>
            /\ Len(term) = Min(Len(desc), SearchTermDescLimit)
            /\ \A i \in 1 .. Len(term) : term[i] = desc[i]
       /\ (~byName /\ ~byDesc /\ bySku) =>
            term = PyStr(FirstNonEmpty(row, sku_fields, None))
       /\ (~byName /\ ~byDesc /\ ~bySku /\ m # <<>>) =>
            term = Join([i \in 1 .. Min(Len(m), MeaningfulFieldsLimit) |->
                           PyStr(row[m[i]])], <<" ">>)
       /\ (~byName /\ ~byDesc /\ ~bySku /\ m = <<>>) => IsPlaceholder(term)

\* a row with no name, a description of 101 characters and a sku has been
\* given its search term: the first 100 characters of the description
C26_Witness ==
  /\ mapper.pc = "enriched"
  /\ {"name", "description", "sku"} \subseteq DOMAIN mapper.item_data
  /\ mapper.item_data["name"] = None
  /\ Len(mapper.item_data["description"].s) = SearchTermDescLimit + 1
  /\ Truthy(mapper.item_data["sku"])
  /\ Len(mapper.search_term) = SearchTermDescLimit

\* C30: for both providers and every outcome of the enrichment, main_image
\* of the product is null or one URL, never a list, and images is null or a
\* list that is not empty.
C30_MainImageIsOneUrl ==
  mapper.pc = "mapped" =>
    /\ mapper.product_data.main_image.kind \in {"null", "str"}
    /\ \/ mapper.product_data.images.kind = "null"
       \/ /\ mapper.product_data.images.kind = "list"
          /\ mapper.product_data.images.len > 0

====
